---- MODULE Spec2Model ----
(***************************************************************************)
(* Agent Event Bridge of claude-code-telegram.                             *)
(*                                                                         *)
(*   src/src/events/handlers.py        AgentHandler                        *)
(*   src/src/notifications/even_g2.py  EvenG2NotificationService           *)
(*   src/claude/facade.py (absent)     ClaudeIntegration fallback policy   *)
(*   src/events/bus.py    (absent)     EventBus                            *)
(*                                                                         *)
(* Text is a sequence of one-character strings, a path is a sequence of    *)
(* component names, each name a text.                                      *)
(***************************************************************************)
EXTENDS Integers, Sequences, FiniteSets, TLC

VARIABLES
    default_working_directory, \* AgentHandler.default_working_directory
    pc,             \* position of the handler task that is running
    cur,            \* the event that task is handling
    idx,            \* handle_scheduled: next index of target_chat_ids
    deliver,        \* handle_response: the event whose POST is in flight
    agentCalls,     \* ClaudeIntegration.run_command calls of this event
    published,      \* AgentResponseEvents published for this event
    posts,          \* HTTP POSTs issued for this event
    logs,           \* warning / exception log entries of this event
    escaped,        \* an exception left the handler the bus called
    resolution,     \* the last _resolve_even_g2_working_directory call
    response,       \* the outcome of the agent call, once it ended
    reply,          \* the outcome of the last HTTP POST
    entry,          \* the handler the event was handed to
    g2_url,         \* EvenG2NotificationService.g2_url
    calls,          \* ClaudeIntegration._execute_with_fallback: the calls in progress
    sdk_failed_count, \* ClaudeIntegration._sdk_failed_count
    handled,        \* events handle_response has returned for, for this event
    sanitizer       \* a call of _to_plain_text: its argument and its results

vars == <<default_working_directory, pc, cur, idx, deliver, agentCalls,
          published, posts, logs, escaped, resolution, response, reply,
          entry, g2_url, calls, sdk_failed_count, handled, sanitizer>>

(***************************************************************************)
(* Bounds of the model.                                                    *)
(***************************************************************************)
MaxLinkHops == 3
MaxTextLen == 3
MaxTargets == 2
NumCalls == 2

(***************************************************************************)
(* Text helpers.                                                           *)
(***************************************************************************)
Front(s) == SubSeq(s, 1, Len(s) - 1)

Last(s) == s[Len(s)]

IsSpace(c) == c \in {" ", "\n", "\t", "\r", "\f"}

RECURSIVE LStrip(_)
LStrip(s) == IF s # <<>> /\ IsSpace(Head(s)) THEN LStrip(Tail(s)) ELSE s

RECURSIVE RStrip(_)
RStrip(s) == IF s # <<>> /\ IsSpace(Last(s)) THEN RStrip(Front(s)) ELSE s

\* str.strip()
Strip(s) == RStrip(LStrip(s))

StartsWith(s, p) == Len(p) <= Len(s) /\ SubSeq(s, 1, Len(p)) = p

(***************************************************************************)
(* JSON-like payload values: [t, v] with t the type tag.                   *)
(***************************************************************************)
Missing == [t |-> "missing", v |-> <<>>]
Null == [t |-> "null", v |-> <<>>]
Num7 == [t |-> "int", v |-> <<"7">>]
S(v) == [t |-> "str", v |-> v]

\* str(payload.get(key, ""))
PyStr(x) ==
    CASE x.t = "missing" -> <<>>
      [] x.t = "null" -> <<"N", "o", "n", "e">>
      [] OTHER -> x.v

\* payload.get("working_directory"): None when the key is absent
PyGet(x) == IF x.t = "missing" THEN Null ELSE x

(***************************************************************************)
(* The file system the handler runs on.                                    *)
(***************************************************************************)
nW == <<"w">>
nR == <<"r">>
nRE == <<"r", "e">>
nS == <<"s">>
nF == <<"f">>
nOut == <<"o">>
nIn == <<"i">>
nLoop == <<"l">>
nD == <<"d">>
nH == <<"h">>
nX == <<"x">>
DotDot == <<".", ".">>
Dot == <<".">>

Dirs == { <<>>, <<nW>>, <<nW, nR>>, <<nW, nR, nS>>, <<nW, nRE>>, <<nH>>,
          <<nW, nRE, nS>> }

Files == { <<nW, nR, nF>> }

\* symbolic links: path |-> absolute target
SymlinkAt == { <<nW, nR, nOut>>, <<nW, nR, nIn>>, <<nW, nR, nLoop>>, <<nW, nD>> }

SymlinkTarget(p) ==
    CASE p = <<nW, nR, nOut>> -> <<nW, nRE>>
      [] p = <<nW, nR, nIn>> -> <<nW, nR, nS>>
      [] p = <<nW, nR, nLoop>> -> <<nW, nR, nLoop>>
      [] p = <<nW, nD>> -> <<nW, nR>>

\* home directories: "" is the current user
HomeUsers == { <<>>, <<"u">> }

HomeOf(user) == IF user = <<>> THEN <<nH>> ELSE <<nW, nR, nS>>

(***************************************************************************)
(* pathlib.                                                                *)
(***************************************************************************)
\* Path(value): the components between slashes, "" and "." dropped
RECURSIVE SplitParts(_, _)
SplitParts(s, acc) ==
    IF s = <<>>
    THEN IF acc = <<>> \/ acc = Dot THEN <<>> ELSE <<acc>>
    ELSE IF Head(s) = "/"
         THEN (IF acc = <<>> \/ acc = Dot THEN <<>> ELSE <<acc>>)
              \o SplitParts(Tail(s), <<>>)
         ELSE SplitParts(Tail(s), Append(acc, Head(s)))

PathOf(value) ==
    [abs |-> value # <<>> /\ Head(value) = "/", parts |-> SplitParts(value, <<>>)]

\* Path.expanduser(): RuntimeError when the home directory is unknown
ExpandUser(p) ==
    IF ~p.abs /\ p.parts # <<>> /\ Head(Head(p.parts)) = "~"
    THEN LET user == Tail(Head(p.parts)) IN
         IF user \in HomeUsers
         THEN [ok |-> TRUE, abs |-> TRUE, parts |-> HomeOf(user) \o Tail(p.parts)]
         ELSE [ok |-> FALSE, abs |-> FALSE, parts |-> <<>>]
    ELSE [ok |-> TRUE, abs |-> p.abs, parts |-> p.parts]

\* Path.resolve() of an absolute path, strict=False: symlinks followed,
\* ".." taken lexically after them; RuntimeError on a symlink loop
RECURSIVE Walk(_, _, _)
Walk(done, rest, hops) ==
    IF rest = <<>> THEN [ok |-> TRUE, path |-> done]
    ELSE LET c == Head(rest) IN
         IF c = DotDot
         THEN Walk(IF done = <<>> THEN <<>> ELSE Front(done), Tail(rest), hops)
         ELSE IF Append(done, c) \in SymlinkAt
              THEN IF hops = 0
                   THEN [ok |-> FALSE, path |-> <<>>]
                   ELSE Walk(<<>>, SymlinkTarget(Append(done, c)) \o Tail(rest),
                             hops - 1)
              ELSE Walk(Append(done, c), Tail(rest), hops)

Resolve(parts) == Walk(<<>>, parts, MaxLinkHops)

Exists(path) == path \in Dirs \cup Files

IsDir(path) == path \in Dirs

\* str(path) of an absolute path
RECURSIVE PathStr(_)
PathStr(path) ==
    IF path = <<>> THEN <<>> ELSE <<"/">> \o Head(path) \o PathStr(Tail(path))

(***************************************************************************)
(* re and html, as EvenG2NotificationService._to_plain_text uses them.     *)
(***************************************************************************)
UpperLetters ==
    <<"A", "B", "C", "D", "E", "F", "G", "H", "I", "J", "K", "L", "M",
      "N", "O", "P", "Q", "R", "S", "T", "U", "V", "W", "X", "Y", "Z">>

LowerLetters ==
    <<"a", "b", "c", "d", "e", "f", "g", "h", "i", "j", "k", "l", "m",
      "n", "o", "p", "q", "r", "s", "t", "u", "v", "w", "x", "y", "z">>

\* (?i): a letter matches in either case
Lower(c) ==
    IF \E i \in DOMAIN UpperLetters : UpperLetters[i] = c
    THEN LowerLetters[CHOOSE i \in DOMAIN UpperLetters : UpperLetters[i] = c]
    ELSE c

LowerAll(s) == [i \in DOMAIN s |-> Lower(s[i])]

\* \s
IsReSpace(c) == c \in {" ", "\n", "\t", "\r", "\f"}

Drop(s, n) == SubSeq(s, n + 1, Len(s))

\* index of the first element of s at or after i that is not \s (Len(s)+1 if none)
RECURSIVE SkipSpace(_, _)
SkipSpace(s, i) ==
    IF i <= Len(s) /\ IsReSpace(s[i]) THEN SkipSpace(s, i + 1) ELSE i

\* index of the first ">" of s at or after i (0 if none)
RECURSIVE FindGt(_, _)
FindGt(s, i) ==
    IF i > Len(s) THEN 0 ELSE IF s[i] = ">" THEN i ELSE FindGt(s, i + 1)

\* the tail (?:\s+[^>]*)?> of a tag, tried at index i: the index of its ">" or 0
TagTail(s, i) ==
    IF i > Len(s) THEN 0
    ELSE IF s[i] = ">" THEN i
    ELSE IF IsReSpace(s[i]) THEN FindGt(s, i + 1)
    ELSE 0

\* (?i)<br\s*/?> at the head of s: the length of the match or 0
BrMatch(s) ==
    IF Len(s) >= 4 /\ LowerAll(SubSeq(s, 1, 3)) = <<"<", "b", "r">>
    THEN LET j == SkipSpace(s, 4) IN
         IF j <= Len(s) /\ s[j] = ">" THEN j
         ELSE IF j + 1 <= Len(s) /\ s[j] = "/" /\ s[j + 1] = ">" THEN j + 1
         ELSE 0
    ELSE 0

\* (?i)<p(?:\s+[^>]*)?> at the head of s
POpenMatch(s) ==
    IF Len(s) >= 3 /\ LowerAll(SubSeq(s, 1, 2)) = <<"<", "p">>
    THEN TagTail(s, 3)
    ELSE 0

\* (?i)</p> at the head of s
PCloseMatch(s) ==
    IF Len(s) >= 4 /\ LowerAll(SubSeq(s, 1, 4)) = <<"<", "/", "p", ">">>
    THEN 4
    ELSE 0

\* the tag names of TELEGRAM_FORMAT_TAG_RE
FormatTags ==
    { <<"b">>, <<"s", "t", "r", "o", "n", "g">>, <<"i">>, <<"e", "m">>,
      <<"u">>, <<"s">>, <<"d", "e", "l">>, <<"c", "o", "d", "e">>,
      <<"p", "r", "e">>,
      <<"b", "l", "o", "c", "k", "q", "u", "o", "t", "e">>, <<"a">> }

\* TELEGRAM_FORMAT_TAG_RE at the head of s: the length of the match or 0
TELEGRAM_FORMAT_TAG_RE(s) ==
    IF s = <<>> \/ Head(s) # "<" THEN 0
    ELSE LET k == IF Len(s) >= 2 /\ s[2] = "/" THEN 3 ELSE 2
             ends == { TagTail(s, k + Len(n)) :
                         n \in { m \in FormatTags :
                                   /\ k + Len(m) - 1 <= Len(s)
                                   /\ LowerAll(SubSeq(s, k, k + Len(m) - 1)) = m } }
         IN  IF ends \ {0} = {} THEN 0
             ELSE CHOOSE e \in ends \ {0} : \A f \in ends \ {0} : e <= f

\* re.sub(pattern, repl, s) for a pattern given by its match length at the head
RECURSIVE ReSub(_, _, _)
ReSub(Match(_), repl, s) ==
    IF s = <<>> THEN <<>>
    ELSE IF Match(s) > 0 THEN repl \o ReSub(Match, repl, Drop(s, Match(s)))
    ELSE <<Head(s)>> \o ReSub(Match, repl, Tail(s))

\* the character references html.unescape knows, of those the texts use
EntityNames ==
    { <<"l", "t">>, <<"g", "t">>, <<"a", "m", "p">>, <<"q", "u", "o", "t">> }

EntityChar(n) ==
    CASE n = <<"l", "t">> -> "<"
      [] n = <<"g", "t">> -> ">"
      [] n = <<"a", "m", "p">> -> "&"
      [] n = <<"q", "u", "o", "t">> -> "\""

MaxEntityName == 32

IsNameChar(c) == c \notin {"\t", "\n", "\f", " ", "<", "&", "#", ";"}

\* length of the run [^\t\n\f <&#;]{1,32} of s from index i
RECURSIVE NameRun(_, _, _)
NameRun(s, i, n) ==
    IF n < MaxEntityName /\ i <= Len(s) /\ IsNameChar(s[i])
    THEN NameRun(s, i + 1, n + 1)
    ELSE n

Digits == {"0", "1", "2", "3", "4", "5", "6", "7", "8", "9"}

RECURSIVE DigitRun(_, _)
DigitRun(s, i) ==
    IF i <= Len(s) /\ s[i] \in Digits THEN 1 + DigitRun(s, i + 1) ELSE 0

\* the decimal character references html.unescape knows, of those the texts use
NumericRefs == { <<"6", "0">>, <<"6", "2">>, <<"3", "8">>, <<"1", "0">> }

NumericChar(d) ==
    CASE d = <<"6", "0">> -> "<"
      [] d = <<"6", "2">> -> ">"
      [] d = <<"3", "8">> -> "&"
      [] d = <<"1", "0">> -> "\n"

\* html.unescape: &#NN; and &#NN, &name; and &name, and the longest known
\* prefix of an unknown name
RECURSIVE Unescape(_)
Unescape(s) ==
    IF s = <<>> THEN <<>>
    ELSE IF Head(s) # "&" THEN <<Head(s)>> \o Unescape(Tail(s))
    ELSE IF Len(s) >= 3 /\ s[2] = "#" /\ DigitRun(s, 3) > 0
              /\ SubSeq(s, 3, 2 + DigitRun(s, 3)) \in NumericRefs
         THEN LET d == DigitRun(s, 3)
                  semi == 3 + d <= Len(s) /\ s[3 + d] = ";"
              IN  <<NumericChar(SubSeq(s, 3, 2 + d))>>
                  \o Unescape(Drop(s, 2 + d + (IF semi THEN 1 ELSE 0)))
    ELSE LET run == NameRun(s, 2, 0)
             name == SubSeq(s, 2, 1 + run)
             semi == run > 0 /\ 2 + run <= Len(s) /\ s[2 + run] = ";"
             whole == run + (IF semi THEN 1 ELSE 0)
             known == { k \in 2..run : SubSeq(name, 1, k) \in EntityNames }
         IN  IF run = 0 THEN <<"&">> \o Unescape(Tail(s))
             ELSE IF name \in EntityNames
                  THEN <<EntityChar(name)>> \o Unescape(Drop(s, 1 + whole))
             ELSE IF known # {}
                  THEN LET k == CHOOSE x \in known : \A y \in known : y <= x
                       IN  <<EntityChar(SubSeq(name, 1, k))>>
                           \o SubSeq(s, 2 + k, 1 + whole)
                           \o Unescape(Drop(s, 1 + whole))
             ELSE SubSeq(s, 1, 1 + whole) \o Unescape(Drop(s, 1 + whole))

\* \n{3,} at the head of s
RECURSIVE NewlineRun(_)
NewlineRun(s) ==
    IF s # <<>> /\ Head(s) = "\n" THEN 1 + NewlineRun(Tail(s)) ELSE 0

\* \n{3} at the head of s: three newlines of the run and no more
ThreeNewlines(s) == IF NewlineRun(s) >= 3 THEN 3 ELSE 0

ManyNewlines(s) == IF NewlineRun(s) >= 3 THEN NewlineRun(s) ELSE 0

\* the entities decoded before the tags are removed
ToPlainTextUnescapeFirst(text) ==
    LET unescaped == Unescape(text)
        n1 == ReSub(BrMatch, <<"\n">>, unescaped)
        n2 == ReSub(POpenMatch, <<"\n">>, n1)
        normalized == ReSub(PCloseMatch, <<"\n">>, n2)
        stripped == ReSub(TELEGRAM_FORMAT_TAG_RE, <<>>, normalized)
        compact == ReSub(ManyNewlines, <<"\n", "\n">>, stripped)
    IN  Strip(compact)

_to_plain_text(text) ==
    LET n1 == ReSub(BrMatch, <<"\n">>, text)
        n2 == ReSub(POpenMatch, <<"\n">>, n1)
        normalized == ReSub(PCloseMatch, <<"\n">>, n2)
        stripped == ReSub(TELEGRAM_FORMAT_TAG_RE, <<>>, normalized)
        unescaped == Unescape(stripped)
        compact == ReSub(ManyNewlines, <<"\n", "\n">>, unescaped)
    IN  Strip(compact)

\* no call of _to_plain_text is in hand
NoSanitizer == [pc |-> "idle", text |-> <<>>, once |-> <<>>, twice |-> <<>>]

(***************************************************************************)
(* AgentHandler: prompts and the working-directory sandbox.                *)
(***************************************************************************)
EVEN_G2_PROMPT_PREFIX == <<"You are responding for Even G2 smart glasses. ...">>

_build_even_g2_prompt(user_prompt) ==
    EVEN_G2_PROMPT_PREFIX \o <<"\n", "User request:", "\n">> \o user_prompt

\* the payload summary is carried as one token: no claim reads it
_build_webhook_prompt(event) ==
    <<"A ", event.provider, " webhook event occurred.", "\n",
      "Payload summary:", "\n", "<summary>", "\n", "\n",
      "Analyze this event and provide a concise summary. ",
      "Highlight anything that needs my attention.">>

\* the containment test done on the paths' strings
IsWithinByStringPrefix(candidate, root) ==
    StartsWith(PathStr(candidate), PathStr(root))

\* candidate.relative_to(root) succeeds: root's components lead candidate's
_is_within_approved_root(candidate, root) ==
    /\ Len(root) <= Len(candidate)
    /\ \A i \in 1..Len(root) : candidate[i] = root[i]

Returned(dir, warning) == [raised |-> FALSE, dir |-> dir, warning |-> warning]

Raised(error) == [raised |-> TRUE, dir |-> <<>>, warning |-> error]

\* the resolver with a relative request taken against the process's current
\* directory, not against the approved root
ResolveAgainstCwd(raw_value, root) ==
    IF raw_value.t # "str" THEN Returned(root, "")
    ELSE LET value == Strip(raw_value.v) IN
    IF value = <<>> THEN Returned(root, "")
    ELSE LET expanded == ExpandUser(PathOf(value)) IN
    IF ~expanded.ok THEN Raised("RuntimeError")
    ELSE LET resolved == Resolve(expanded.parts) IN
    IF ~resolved.ok
    THEN Returned(root, "Ignoring invalid even-g2 working directory")
    ELSE IF ~_is_within_approved_root(resolved.path, root)
    THEN Returned(root, "Ignoring even-g2 working directory outside approved root")
    ELSE IF ~Exists(resolved.path) \/ ~IsDir(resolved.path)
    THEN Returned(root,
           "Ignoring even-g2 working directory that is not an existing directory")
    ELSE Returned(resolved.path, "")

_resolve_even_g2_working_directory(raw_value, root) ==
    IF raw_value.t # "str" THEN Returned(root, "")
    ELSE LET value == Strip(raw_value.v) IN
    IF value = <<>> THEN Returned(root, "")
    ELSE LET expanded == ExpandUser(PathOf(value)) IN
    IF ~expanded.ok THEN Raised("RuntimeError")
    ELSE LET candidate == IF expanded.abs THEN expanded.parts
                          ELSE root \o expanded.parts
             resolved == Resolve(candidate)
         IN
    IF ~resolved.ok
    THEN Returned(root, "Ignoring invalid even-g2 working directory")
    ELSE IF ~_is_within_approved_root(resolved.path, root)
    THEN Returned(root, "Ignoring even-g2 working directory outside approved root")
    ELSE IF ~Exists(resolved.path) \/ ~IsDir(resolved.path)
    THEN Returned(root,
           "Ignoring even-g2 working directory that is not an existing directory")
    ELSE Returned(resolved.path, "")

(***************************************************************************)
(* Events and log entries.                                                 *)
(***************************************************************************)
NoEvent == [type |-> "none"]

WebhookEvent(id, provider, text, session_id, working_directory) ==
    [type |-> "WebhookEvent", id |-> id, provider |-> provider,
     payload |-> [text |-> text, session_id |-> session_id,
                  working_directory |-> working_directory]]

ScheduledEvent(id, prompt, skill_name, working_directory, target_chat_ids) ==
    [type |-> "ScheduledEvent", id |-> id, prompt |-> prompt,
     skill_name |-> skill_name, working_directory |-> working_directory,
     target_chat_ids |-> target_chat_ids]

AgentResponseEvent(chat_id, text, provider, session_id, originating_event_id) ==
    [type |-> "AgentResponseEvent", chat_id |-> chat_id, text |-> text,
     provider |-> provider, session_id |-> session_id,
     originating_event_id |-> originating_event_id]

\* "not x" of an optional string
Falsy(x) == x.t = "null" \/ (x.t = "str" /\ x.v = <<>>)

LogEntry(level, msg, session_id, source_event, status_code, body_snippet) ==
    [level |-> level, msg |-> msg, session_id |-> session_id,
     source_event |-> source_event, status_code |-> status_code,
     body_snippet |-> body_snippet]

Warning(msg) == LogEntry("warning", msg, Null, 0, 0, <<>>)

NoResponse == [kind |-> "none", content |-> <<>>]

\* what run_command did: it returned a response with this content, or raised
AgentResponse(content) == [kind |-> "response", content |-> content]

AgentError == [kind |-> "error", content |-> <<>>]

NoReply == [kind |-> "none", status_code |-> 0, body |-> <<>>]

\* what client.post did: it returned a response, or raised
HttpResponse(status_code, body) ==
    [kind |-> "response", status_code |-> status_code, body |-> body]

HttpFault == [kind |-> "fault", status_code |-> 0, body |-> <<>>]

NoResolution == [called |-> FALSE, raw |-> Null, out |-> Returned(<<>>, "")]

(***************************************************************************)
(* EvenG2NotificationService.                                              *)
(***************************************************************************)
BridgeSecret == "bridge-secret"

SnippetMax == 300

\* str.rstrip("/")
RECURSIVE RStripSlash(_)
RStripSlash(s) ==
    IF s # <<>> /\ Last(s) = "/" THEN RStripSlash(Front(s)) ELSE s

\* str.replace("\n", " ")
NewlinesToSpaces(s) == [i \in DOMAIN s |-> IF s[i] = "\n" THEN " " ELSE s[i]]

Truncate(s, n) == SubSeq(s, 1, IF Len(s) < n THEN Len(s) ELSE n)

BodySnippet(text) == Truncate(Strip(NewlinesToSpaces(text)), SnippetMax)

\* the filters without the test of the sanitized text
PassesFiltersUnsanitized(event) ==
    /\ event.type = "AgentResponseEvent"
    /\ event.provider = "even-g2"
    /\ ~Falsy(event.session_id)

\* the filters of handle_response that come before the HTTP call
PassesFilters(event) ==
    /\ event.type = "AgentResponseEvent"
    /\ event.provider = "even-g2"
    /\ ~Falsy(event.session_id)
    /\ _to_plain_text(event.text) # <<>>

\* client.post(...) of handle_response
PostOf(event) ==
    [url |-> g2_url \o <<"/__g2_receive">>,
     authorization |-> <<"Bearer ", BridgeSecret>>,
     sessionId |-> event.session_id.v,
     text |-> _to_plain_text(event.text),
     source_event |-> event.originating_event_id]

\* handle_response from its call to its first suspension point or its return;
\* after is where the caller goes on when the handler returns at once
handle_response(event, after) ==
    IF PassesFilters(event)
    THEN /\ posts' = Append(posts, PostOf(event))
         /\ deliver' = event
         /\ pc' = "await_http"
         /\ handled' = handled
    ELSE /\ UNCHANGED <<posts, deliver>>
         /\ pc' = after
         /\ handled' = Append(handled, event)

(***************************************************************************)
(* EventBus: publish delivers the event to the handlers subscribed to its  *)
(* exact type, in subscription order, and returns when they have returned. *)
(***************************************************************************)
Subscribers(type) ==
    CASE type = "WebhookEvent" -> <<"handle_webhook">>
      [] type = "ScheduledEvent" -> <<"handle_scheduled">>
      [] type = "AgentResponseEvent" -> <<"handle_response">>
      [] OTHER -> <<>>

\* publish that puts the event on a queue and returns before its handlers ran
PublishQueued(event, after) ==
    /\ published' = Append(published, event)
    /\ UNCHANGED <<posts, deliver, handled>>
    /\ pc' = after

\* publish(event) called from inside AgentHandler
publish(event, after) ==
    /\ published' = Append(published, event)
    /\ IF "handle_response" \in { Subscribers(event.type)[i] :
                                    i \in DOMAIN Subscribers(event.type) }
       THEN handle_response(event, after)
       ELSE /\ UNCHANGED <<posts, deliver, handled>>
            /\ pc' = after

(***************************************************************************)
(* Inputs.                                                                 *)
(***************************************************************************)
EventIds == {1, 2}

Providers == {"even-g2", "github"}

PayloadTexts ==
    { Missing, Null, S(<<>>), S(<<" ", "\n">>), S(<<"h", "i">>),
      S(<<" ", "h", "i", "\t">>) }

PayloadSessionIds == { Missing, Null, S(<<>>), S(<<" ">>), S(<<"s", "1">>) }

PayloadDirectories ==
    { Missing, Null, Num7, S(<<>>), S(<<" ">>),
      S(<<"/", "w", "/", "r">>),
      S(<<"/", "w", "/", "r", "/", "s">>),
      S(<<"s">>),
      S(<<" ", "s", "/", " ">>),
      S(<<".">>),
      S(<<"/">>),
      S(<<"/", "w", "/", "r", "e">>),
      S(<<"/", "w", "/", "r", "e", "/", "s">>),
      S(<<".", ".", "/", "r", "e">>),
      S(<<"s", "/", ".", ".", "/", ".", ".">>),
      S(<<"x", "/", ".", ".", "/", "s">>),
      S(<<"o">>),
      S(<<"o", "/", "s">>),
      S(<<"i">>),
      S(<<"l">>),
      S(<<"f">>),
      S(<<"x">>),
      S(<<"/", "w", "/", "d", "/", "s">>),
      S(<<"~">>),
      S(<<"~", "u">>),
      S(<<"~", "z", "/", "s">>) }

WebhookEvents ==
    { WebhookEvent(id, p, t, sid, wd) :
        id \in EventIds, p \in Providers, t \in PayloadTexts,
        sid \in PayloadSessionIds, wd \in PayloadDirectories }

ChatIds == {0, 11, 22}

TargetLists == UNION { [1..n -> ChatIds] : n \in 0..MaxTargets }

P(path) == [t |-> "path", v |-> path]

ScheduledEvents ==
    { ScheduledEvent(id, prompt, skill, wd, targets) :
        id \in EventIds,
        prompt \in { <<>>, <<"g", "o">> },
        skill \in { Null, S(<<>>), S(<<"k">>) },
        wd \in { Null, P(<<nW, nRE>>), P(<<nW, nR, nS>>), P(<<nX>>) },
        targets \in TargetLists }

AgentContents ==
    { <<>>, <<"o", "k">>, <<"<", "b", ">", "x", "<", "/", "b", ">">>,
      <<"<", "b", ">", "<", "/", "b", ">">>,
      <<"&", "l", "t", ";", "b", "&", "g", "t", ";">>,
      <<" ", "\n">> }

ResponseEvents ==
    { AgentResponseEvent(0, text, p, sid, src) :
        text \in AgentContents,
        p \in {"even-g2", "github", "", "Even-G2"},
        sid \in { Null, S(<<>>), S(<<"s", "1">>) },
        src \in {0, 1} }

\* events of another type, handed to a handler that is not theirs
OtherEvents ==
    { WebhookEvent(1, "even-g2", S(<<"h", "i">>), S(<<"s", "1">>), Missing),
      ScheduledEvent(1, <<"g", "o">>, Null, Null, <<11>>) }

Repeat(c, n) == [i \in 1..n |-> c]

StatusCodes == {200, 204, 302, 400, 401, 503}

ResponseBodies ==
    { <<>>, <<" ", "n", "o", "\n", "t", "\n">>, Repeat("x", SnippetMax + 1) }

ConfiguredUrls ==
    { <<"http://localhost:5173">>, <<"http://localhost:5173", "/", "/">> }

ConfiguredRoots == { <<nW, nR>>, <<nW, nD>>, <<nW, nR, nS, DotDot>> }

(***************************************************************************)
(* ClaudeIntegration._execute_with_fallback: the primary (SDK) strategy,   *)
(* then the fallback (subprocess) strategy on a parsing failure.           *)
(***************************************************************************)
UnknownMessageType == "Unknown message type"

\* needle in msg
Contains(msg, needle) == \E i \in DOMAIN msg : msg[i] = needle

ErrorKinds == {"ClaudeParsingError", "ClaudeProcessError"}

ErrorMessages ==
    { <<"Claude SDK error: ", "Unknown message type", ": rate_limit_event">>,
      <<"Claude SDK error: backend unavailable">>,
      <<"Failed to parse Claude SDK stream: invalid JSON">> }

Errors == [kind : ErrorKinds, msg : ErrorMessages]

FallbackErrors ==
    { [kind |-> "ClaudeProcessError", msg |-> <<"Claude process exited: 1">>],
      [kind |-> "ClaudeParsingError",
       msg |-> <<"Failed to parse: ", "Unknown message type">>] }

NoError == [kind |-> "", msg |-> <<>>]

Requests == { <<"h", "i">>, <<"g", "o">> }

Responses == { "sdk-session", "proc-session" }

NoOutcome == [kind |-> "none", response |-> "", error |-> NoError]

Ok(r) == [kind |-> "response", response |-> r, error |-> NoError]

Err(e) == [kind |-> "error", response |-> "", error |-> e]

\* the classification done on the error's kind alone
ShouldFallbackByKind(e) == e.kind = "ClaudeParsingError"

\* the classification done on the error's message alone
ShouldFallbackByMessage(e) == Contains(e.msg, UnknownMessageType)

\* the primary's error sends the request to the fallback strategy
ShouldFallback(e) ==
    \/ e.kind = "ClaudeParsingError"
    \/ Contains(e.msg, UnknownMessageType)

Invocation(strategy, request) == [strategy |-> strategy, request |-> request]

BridgeVars ==
    <<default_working_directory, pc, cur, idx, deliver, agentCalls, published,
      posts, logs, escaped, resolution, response, reply, entry, g2_url,
      handled, sanitizer>>

NewCall ==
    [pc |-> "start", request |-> <<>>, sent |-> <<>>, primary |-> NoOutcome,
     fallback |-> NoOutcome, result |-> NoOutcome, counted |-> 0]

\* the call starts: the primary strategy is awaited
ExecuteWithFallback(c, request) ==
    /\ calls[c].pc = "start"
    /\ calls' = [calls EXCEPT ![c].pc = "await_primary",
                              ![c].request = request,
                              ![c].sent = <<Invocation("primary", request)>>]
    /\ UNCHANGED sdk_failed_count
    /\ UNCHANGED BridgeVars

\* the primary strategy succeeds: its response is the result
PrimaryReturns(c, r) ==
    /\ calls[c].pc = "await_primary"
    /\ calls' = [calls EXCEPT ![c].pc = "done",
                              ![c].primary = Ok(r),
                              ![c].result = Ok(r)]
    /\ UNCHANGED sdk_failed_count
    /\ UNCHANGED BridgeVars

\* the counter written as one more than its value when the service started,
\* not one more than its value now
PrimaryRaisesOverwriting(c, e) ==
    /\ calls[c].pc = "await_primary"
    /\ UNCHANGED BridgeVars
    /\ IF ShouldFallback(e)
       THEN /\ sdk_failed_count' = 1
            /\ calls' = [calls EXCEPT
                           ![c].pc = "await_fallback",
                           ![c].primary = Err(e),
                           ![c].counted = 1,
                           ![c].sent = Append(@, Invocation("fallback",
                                                            calls[c].request))]
       ELSE /\ UNCHANGED sdk_failed_count
            /\ calls' = [calls EXCEPT ![c].pc = "done",
                                      ![c].primary = Err(e),
                                      ![c].result = Err(e)]

\* the primary strategy raises: the error is classified once
PrimaryRaises(c, e) ==
    /\ calls[c].pc = "await_primary"
    /\ UNCHANGED BridgeVars
    /\ IF ShouldFallback(e)
       THEN /\ sdk_failed_count' = sdk_failed_count + 1
            /\ calls' = [calls EXCEPT
                           ![c].pc = "await_fallback",
                           ![c].primary = Err(e),
                           ![c].counted = 1,
                           ![c].sent = Append(@, Invocation("fallback",
                                                            calls[c].request))]
       ELSE /\ UNCHANGED sdk_failed_count
            /\ calls' = [calls EXCEPT ![c].pc = "done",
                                      ![c].primary = Err(e),
                                      ![c].result = Err(e)]

\* the fallback strategy succeeds
FallbackReturns(c, r) ==
    /\ calls[c].pc = "await_fallback"
    /\ calls' = [calls EXCEPT ![c].pc = "done",
                              ![c].fallback = Ok(r),
                              ![c].result = Ok(r)]
    /\ UNCHANGED sdk_failed_count
    /\ UNCHANGED BridgeVars

\* the fallback strategy raises: its error is the result
FallbackRaises(c, e) ==
    /\ calls[c].pc = "await_fallback"
    /\ calls' = [calls EXCEPT ![c].pc = "done",
                              ![c].fallback = Err(e),
                              ![c].result = Err(e)]
    /\ UNCHANGED sdk_failed_count
    /\ UNCHANGED BridgeVars

CallIds == 1..NumCalls

NextPolicy ==
    \/ \E c \in CallIds, request \in Requests :
          ExecuteWithFallback(c, request)
    \/ \E c \in CallIds, r \in Responses :
          PrimaryReturns(c, r)
    \/ \E c \in CallIds, e \in Errors :
          PrimaryRaises(c, e)
    \/ \E c \in CallIds, r \in Responses :
          FallbackReturns(c, r)
    \/ \E c \in CallIds, e \in FallbackErrors :
          FallbackRaises(c, e)


(***************************************************************************)
(* Construction.                                                           *)
(***************************************************************************)
default_user_id == 0

\* AgentHandler.__init__: default_working_directory.resolve()
AgentHandlerInit(configured) == Resolve(configured).path

\* EvenG2NotificationService.__init__: g2_url.rstrip("/")
ServiceInit(url) == RStripSlash(url)

Init ==
    /\ \E configured \in ConfiguredRoots :
           default_working_directory = AgentHandlerInit(configured)
    /\ \E url \in ConfiguredUrls : g2_url = ServiceInit(url)
    /\ pc = "idle"
    /\ cur = NoEvent
    /\ idx = 1
    /\ deliver = NoEvent
    /\ agentCalls = <<>>
    /\ published = <<>>
    /\ posts = <<>>
    /\ logs = <<>>
    /\ escaped = FALSE
    /\ resolution = NoResolution
    /\ response = NoResponse
    /\ reply = NoReply
    /\ entry = "none"
    /\ calls = [c \in CallIds |-> NewCall]
    /\ sdk_failed_count = 0
    /\ handled = <<>>
    /\ sanitizer = NoSanitizer

(***************************************************************************)
(* AgentHandler.handle_webhook and handle_scheduled, from the call by the  *)
(* bus to the agent call (or to the return, or to the escaping exception). *)
(***************************************************************************)
run_command(prompt, working_directory, user_id, session_id) ==
    [prompt |-> prompt, working_directory |-> working_directory,
     user_id |-> user_id, session_id |-> session_id]

\* the handler returns before it calls the agent
ReturnsEarly(log) ==
    /\ pc' = "done"
    /\ agentCalls' = <<>>
    /\ logs' = log
    /\ escaped' = FALSE

\* the handler calls the agent and is suspended
CallsAgent(call, log) ==
    /\ pc' = "await_agent"
    /\ agentCalls' = <<call>>
    /\ logs' = log
    /\ escaped' = FALSE

\* an exception leaves the handler
Escapes ==
    /\ pc' = "done"
    /\ agentCalls' = <<>>
    /\ logs' = <<>>
    /\ escaped' = TRUE

\* the prompt taken without .strip()
RawPromptUnstripped(event) == PyStr(event.payload.text)

\* str(event.payload.get("text", "")).strip()
RawPrompt(event) == Strip(PyStr(event.payload.text))

handle_webhook(event) ==
    /\ pc = "idle"
    /\ cur' = event
    /\ idx' = 1
    /\ deliver' = NoEvent
    /\ published' = <<>>
    /\ posts' = <<>>
    /\ response' = NoResponse
    /\ reply' = NoReply
    /\ entry' = "handle_webhook"
    /\ handled' = <<>>
    /\ UNCHANGED <<sanitizer, calls, sdk_failed_count, default_working_directory, g2_url>>
    /\ IF event.type # "WebhookEvent"
       THEN resolution' = NoResolution /\ ReturnsEarly(<<>>)
       ELSE IF event.provider = "even-g2"
       THEN LET raw_prompt == RawPrompt(event)
                sid == Strip(PyStr(event.payload.session_id))
                session_id == IF sid = <<>> THEN Null ELSE S(sid)
                raw_value == PyGet(event.payload.working_directory)
                out == _resolve_even_g2_working_directory(
                           raw_value, default_working_directory)
            IN  IF raw_prompt = <<>>
                THEN /\ resolution' = NoResolution
                     /\ ReturnsEarly(
                          <<Warning("Skipping even-g2 webhook with empty prompt")>>)
                ELSE /\ resolution' =
                            [called |-> TRUE, raw |-> raw_value, out |-> out]
                     /\ IF out.raised
                        THEN Escapes
                        ELSE CallsAgent(
                               run_command(_build_even_g2_prompt(raw_prompt),
                                           out.dir, default_user_id, session_id),
                               IF out.warning = "" THEN <<>>
                               ELSE <<Warning(out.warning)>>)
       ELSE /\ resolution' = NoResolution
            /\ CallsAgent(
                 run_command(_build_webhook_prompt(event),
                             default_working_directory, default_user_id, Null),
                 <<>>)

\* the prompt of a scheduled event
ScheduledPrompt(event) ==
    IF ~Falsy(event.skill_name)
    THEN IF event.prompt # <<>>
         THEN <<"/">> \o event.skill_name.v \o <<"\n", "\n">> \o event.prompt
         ELSE <<"/">> \o event.skill_name.v
    ELSE event.prompt

\* the scheduled directory put through the containment test of the webhooks
ScheduledDirectoryContained(event, root) ==
    IF event.working_directory.t = "null" THEN root
    ELSE IF _is_within_approved_root(event.working_directory.v, root)
         THEN event.working_directory.v
         ELSE root

\* event.working_directory or self.default_working_directory
ScheduledDirectory(event, root) ==
    IF event.working_directory.t = "null" THEN root
    ELSE event.working_directory.v

handle_scheduled(event) ==
    /\ pc = "idle"
    /\ cur' = event
    /\ idx' = 1
    /\ deliver' = NoEvent
    /\ published' = <<>>
    /\ posts' = <<>>
    /\ response' = NoResponse
    /\ reply' = NoReply
    /\ entry' = "handle_scheduled"
    /\ handled' = <<>>
    /\ resolution' = NoResolution
    /\ UNCHANGED <<sanitizer, calls, sdk_failed_count, default_working_directory, g2_url>>
    /\ IF event.type # "ScheduledEvent"
       THEN ReturnsEarly(<<>>)
       ELSE CallsAgent(
              run_command(ScheduledPrompt(event),
                          ScheduledDirectory(event, default_working_directory),
                          default_user_id, Null),
              <<>>)

(***************************************************************************)
(* The handlers after the agent call.                                      *)
(***************************************************************************)
\* the response published without the webhook's provider and session id
WebhookAgentReturnsGeneric(content) ==
    /\ pc = "await_agent"
    /\ cur.type = "WebhookEvent"
    /\ response' = AgentResponse(content)
    /\ UNCHANGED <<sanitizer, calls, sdk_failed_count, default_working_directory,
                   g2_url, cur, idx, agentCalls, logs, escaped, resolution, reply,
                   entry>>
    /\ IF content # <<>>
       THEN publish(AgentResponseEvent(0, content, "", Null, cur.id), "done")
       ELSE /\ pc' = "done"
            /\ UNCHANGED <<published, posts, deliver, handled>>

\* handle_webhook: run_command returns a response
WebhookAgentReturns(content) ==
    /\ pc = "await_agent"
    /\ cur.type = "WebhookEvent"
    /\ response' = AgentResponse(content)
    /\ UNCHANGED <<sanitizer, calls, sdk_failed_count, default_working_directory, g2_url,
                   cur, idx, agentCalls, logs, escaped, resolution, reply,
                   entry>>
    /\ IF content # <<>>
       THEN publish(AgentResponseEvent(0, content, cur.provider,
                                       Last(agentCalls).session_id, cur.id),
                    "done")
       ELSE /\ pc' = "done"
            /\ UNCHANGED <<published, posts, deliver, handled>>

\* the fan-out entered without the test of response.content
ScheduledAgentReturnsUnchecked(content) ==
    /\ pc = "await_agent"
    /\ cur.type = "ScheduledEvent"
    /\ response' = AgentResponse(content)
    /\ pc' = "fanout"
    /\ UNCHANGED <<sanitizer, calls, sdk_failed_count, default_working_directory,
                   g2_url, cur, idx, agentCalls, logs, escaped, resolution,
                   published, posts, deliver, reply, entry, handled>>

\* handle_scheduled: run_command returns a response
ScheduledAgentReturns(content) ==
    /\ pc = "await_agent"
    /\ cur.type = "ScheduledEvent"
    /\ response' = AgentResponse(content)
    /\ pc' = IF content # <<>> THEN "fanout" ELSE "done"
    /\ UNCHANGED <<sanitizer, calls, sdk_failed_count, default_working_directory, g2_url,
                   cur, idx, agentCalls, logs, escaped, resolution, published,
                   posts, deliver, reply, entry, handled>>

\* the broadcast made whatever the targets are
AlwaysBroadcast(event) == TRUE

\* "if not event.target_chat_ids"
NoTargets(event) == event.target_chat_ids = <<>>

\* handle_scheduled: one publish of the loop over target_chat_ids, then the
\* broadcast when there are no targets
ScheduledFanout ==
    /\ pc = "fanout"
    /\ UNCHANGED <<sanitizer, calls, sdk_failed_count, default_working_directory, g2_url,
                   cur, agentCalls, logs, escaped, resolution, response, reply,
                   entry>>
    /\ IF idx <= Len(cur.target_chat_ids)
       THEN /\ idx' = idx + 1
            /\ publish(AgentResponseEvent(cur.target_chat_ids[idx],
                                          response.content, "", Null, cur.id),
                       "fanout")
       ELSE /\ idx' = idx
            /\ IF NoTargets(cur)
               THEN publish(AgentResponseEvent(0, response.content, "", Null,
                                               cur.id),
                            "done")
               ELSE /\ pc' = "done"
                    /\ UNCHANGED <<published, posts, deliver, handled>>

\* run_command raises and no handler catches the exception
AgentRaisesUncaught ==
    /\ pc = "await_agent"
    /\ pc' = "done"
    /\ escaped' = TRUE
    /\ response' = AgentError
    /\ UNCHANGED <<sanitizer, calls, sdk_failed_count, default_working_directory, g2_url,
                   cur, idx, agentCalls, logs, resolution, published, posts,
                   deliver, reply, entry, handled>>

\* run_command raises: "except Exception" of either handler logs and returns
AgentRaises ==
    /\ pc = "await_agent"
    /\ pc' = "done"
    /\ logs' = Append(logs,
                 LogEntry("exception",
                          IF cur.type = "WebhookEvent"
                          THEN "Agent execution failed for webhook event"
                          ELSE "Agent execution failed for scheduled event",
                          Null, cur.id, 0, <<>>))
    /\ response' = AgentError
    /\ UNCHANGED <<sanitizer, calls, sdk_failed_count, default_working_directory, g2_url,
                   cur, idx, agentCalls, escaped, resolution, published, posts,
                   deliver, reply, entry, handled>>

\* the event the fan-out of handle_scheduled publishes next
NextScheduledResponse ==
    AgentResponseEvent(IF NoTargets(cur) THEN 0 ELSE cur.target_chat_ids[idx],
                       response.content, "", Null, cur.id)

\* a publish of the fan-out raises, and the loop goes on with the next target
ScheduledPublishRaisesContinuing(delivered) ==
    /\ pc = "fanout"
    /\ idx <= Len(cur.target_chat_ids) \/ NoTargets(cur)
    /\ pc' = IF NoTargets(cur) THEN "done" ELSE "fanout"
    /\ idx' = IF NoTargets(cur) THEN idx ELSE idx + 1
    /\ published' = IF delivered THEN Append(published, NextScheduledResponse)
                     ELSE published
    /\ handled' = IF delivered THEN Append(handled, NextScheduledResponse)
                   ELSE handled
    /\ logs' = Append(logs,
                 LogEntry("exception",
                          "Agent execution failed for scheduled event",
                          Null, cur.id, 0, <<>>))
    /\ UNCHANGED <<sanitizer, calls, sdk_failed_count, default_working_directory,
                   g2_url, cur, agentCalls, escaped, resolution, response,
                   reply, entry, posts, deliver>>

\* handle_scheduled: a publish of the fan-out raises, before or after the bus
\* has delivered the event: "except Exception" logs and the handler returns
ScheduledPublishRaises(delivered) ==
    /\ pc = "fanout"
    /\ idx <= Len(cur.target_chat_ids) \/ NoTargets(cur)
    /\ pc' = "done"
    /\ idx' = idx
    /\ published' = IF delivered THEN Append(published, NextScheduledResponse)
                     ELSE published
    /\ handled' = IF delivered THEN Append(handled, NextScheduledResponse)
                   ELSE handled
    /\ logs' = Append(logs,
                 LogEntry("exception",
                          "Agent execution failed for scheduled event",
                          Null, cur.id, 0, <<>>))
    /\ UNCHANGED <<sanitizer, calls, sdk_failed_count, default_working_directory,
                   g2_url, cur, agentCalls, escaped, resolution, response,
                   reply, entry, posts, deliver>>

(***************************************************************************)
(* EvenG2NotificationService.handle_response.                              *)
(***************************************************************************)
\* where the task goes on when handle_response returns
AfterDelivery == IF cur.type = "ScheduledEvent" THEN "fanout" ELSE "done"

\* an AgentResponseEvent (or another event) handed to handle_response from
\* outside AgentHandler
PublishResponse(event) ==
    /\ pc = "idle"
    /\ cur' = event
    /\ idx' = 1
    /\ agentCalls' = <<>>
    /\ published' = <<>>
    /\ logs' = <<>>
    /\ escaped' = FALSE
    /\ resolution' = NoResolution
    /\ response' = NoResponse
    /\ reply' = NoReply
    /\ entry' = "handle_response"
    /\ UNCHANGED <<sanitizer, calls, sdk_failed_count, default_working_directory, g2_url>>
    /\ IF PassesFilters(event)
       THEN /\ posts' = <<PostOf(event)>>
            /\ deliver' = event
            /\ pc' = "await_http"
            /\ handled' = <<>>
       ELSE /\ posts' = <<>>
            /\ deliver' = NoEvent
            /\ pc' = "done"
            /\ handled' = <<event>>

\* the bridge answers the POST, and a rejected POST is sent again
HttpRespondsRetrying(status_code, body) ==
    /\ pc = "await_http"
    /\ IF status_code >= 400
       THEN /\ pc' = "await_http"
            /\ posts' = Append(posts, PostOf(deliver))
            /\ deliver' = deliver
            /\ handled' = handled
       ELSE /\ pc' = AfterDelivery
            /\ posts' = posts
            /\ deliver' = NoEvent
            /\ handled' = Append(handled, deliver)
    /\ logs' = logs
    /\ reply' = HttpResponse(status_code, body)
    /\ UNCHANGED <<sanitizer, calls, sdk_failed_count, default_working_directory, g2_url,
                   cur, idx, agentCalls, escaped, resolution, response,
                   published, entry>>

\* the bridge answers the POST
HttpResponds(status_code, body) ==
    /\ pc = "await_http"
    /\ pc' = AfterDelivery
    /\ deliver' = NoEvent
    /\ handled' = Append(handled, deliver)
    /\ logs' = IF status_code >= 400
               THEN Append(logs,
                      LogEntry("warning", "Even-g2 bridge rejected callback",
                               deliver.session_id, deliver.originating_event_id,
                               status_code, BodySnippet(body)))
               ELSE logs
    /\ reply' = HttpResponse(status_code, body)
    /\ UNCHANGED <<sanitizer, calls, sdk_failed_count, default_working_directory, g2_url,
                   cur, idx, agentCalls, escaped, resolution, response,
                   published, posts, entry>>

\* the POST raises: "except Exception" logs and returns
HttpFails ==
    /\ pc = "await_http"
    /\ pc' = AfterDelivery
    /\ deliver' = NoEvent
    /\ handled' = Append(handled, deliver)
    /\ logs' = Append(logs,
                 LogEntry("warning", "Failed to deliver even-g2 notification",
                          deliver.session_id, deliver.originating_event_id,
                          0, <<>>))
    /\ reply' = HttpFault
    /\ UNCHANGED <<sanitizer, calls, sdk_failed_count, default_working_directory, g2_url,
                   cur, idx, agentCalls, escaped, resolution, response,
                   published, posts, entry>>

(***************************************************************************)
(* The specification.                                                      *)
(***************************************************************************)
\* the handler's call has ended and the bus takes up the next event: what
\* was observed of the event is put aside
NextEvent ==
    /\ pc = "done"
    /\ pc' = "idle"
    /\ cur' = NoEvent
    /\ idx' = 1
    /\ deliver' = NoEvent
    /\ agentCalls' = <<>>
    /\ published' = <<>>
    /\ posts' = <<>>
    /\ logs' = <<>>
    /\ escaped' = FALSE
    /\ resolution' = NoResolution
    /\ response' = NoResponse
    /\ reply' = NoReply
    /\ entry' = "none"
    /\ handled' = <<>>
    /\ UNCHANGED <<sanitizer, calls, sdk_failed_count, default_working_directory, g2_url>>

Next ==
    \/ \E event \in WebhookEvents \cup OtherEvents : handle_webhook(event)
    \/ \E event \in ScheduledEvents \cup OtherEvents : handle_scheduled(event)
    \/ \E event \in ResponseEvents \cup OtherEvents : PublishResponse(event)
    \/ \E content \in AgentContents : WebhookAgentReturns(content)
    \/ \E content \in AgentContents : ScheduledAgentReturns(content)
    \/ ScheduledFanout
    \/ AgentRaises
    \/ \E status_code \in StatusCodes, body \in ResponseBodies :
          HttpResponds(status_code, body)
    \/ HttpFails
    \/ NextEvent

Spec == Init /\ [][Next]_vars

SpecPolicy == Init /\ [][NextPolicy]_vars

\* the service with a bus whose publish may raise
NextFault ==
    \/ \E event \in WebhookEvents \cup OtherEvents : handle_webhook(event)
    \/ \E event \in ScheduledEvents \cup OtherEvents : handle_scheduled(event)
    \/ \E event \in ResponseEvents \cup OtherEvents : PublishResponse(event)
    \/ \E content \in AgentContents : WebhookAgentReturns(content)
    \/ \E content \in AgentContents : ScheduledAgentReturns(content)
    \/ ScheduledFanout
    \/ \E delivered \in BOOLEAN : ScheduledPublishRaises(delivered)
    \/ AgentRaises
    \/ \E status_code \in StatusCodes, body \in ResponseBodies :
          HttpResponds(status_code, body)
    \/ HttpFails
    \/ NextEvent

SpecFault == Init /\ [][NextFault]_vars

(***************************************************************************)
(* _to_plain_text applied to texts, once and then to its own result.       *)
(***************************************************************************)
LiteralBrackets ==
    <<"L", "i", "t", "e", "r", "a", "l", ":", " ", "&", "l", "t", ";", "c",
      "o", "n", "f", "i", "g", "&", "g", "t", ";", " ", "a", "n", "d", " ",
      "2", " ", "&", "l", "t", ";", " ", "3">>

LiteralBracketsPlain ==
    <<"L", "i", "t", "e", "r", "a", "l", ":", " ", "<", "c", "o", "n", "f",
      "i", "g", ">", " ", "a", "n", "d", " ", "2", " ", "<", " ", "3">>

CodeParagraph ==
    <<"<", "p", ">", "<", "c", "o", "d", "e", ">", "i", "f", " ", "x", " ",
      "&", "l", "t", ";", " ", "y", ":", "<", "/", "c", "o", "d", "e", ">",
      "<", "b", "r", "/", ">", "p", "a", "s", "s", "<", "/", "p", ">">>

CodeParagraphPlain ==
    <<"i", "f", " ", "x", " ", "<", " ", "y", ":", "\n", "p", "a", "s", "s">>

FiveNewlines ==
    <<"x", "\n", "\n", "\n", "\n", "\n", "y">>

DoublyEncoded ==
    <<"&", "a", "m", "p", ";", "l", "t", ";", "b", "&", "a", "m", "p", ";",
      "g", "t", ";">>

BoldText ==
    <<"<", "b", ">", "b", "o", "l", "d", "<", "/", "b", ">", " ", "<", "I",
      ">", "i", "t", "<", "/", "I", ">">>

\* "&lt;" name "&gt;"
EncodedTag(name) ==
    <<"&", "l", "t", ";">> \o name \o <<"&", "g", "t", ";">>

TextAlphabet == {"<", ">", "b", "/", "&", "\n", " ", "x"}

ShortTexts == UNION { [1..n -> TextAlphabet] : n \in 0..MaxTextLen }

SampleTexts ==
    { LiteralBrackets, LiteralBracketsPlain, CodeParagraph, CodeParagraphPlain,
      FiveNewlines, DoublyEncoded, BoldText }
    \cup { EncodedTag(n) : n \in FormatTags }
    \cup { EncodedTag(<<"/">> \o n) : n \in FormatTags }

SanitizerTexts == ShortTexts \cup SampleTexts

AllButSanitizer ==
    <<default_working_directory, pc, cur, idx, deliver, agentCalls, published,
      posts, logs, escaped, resolution, response, reply, entry, g2_url,
      handled, calls, sdk_failed_count>>

\* _to_plain_text(text)
SanitizeText(text) ==
    /\ sanitizer.pc = "idle"
    /\ sanitizer' = [pc |-> "once", text |-> text,
                     once |-> _to_plain_text(text), twice |-> <<>>]
    /\ UNCHANGED AllButSanitizer

\* _to_plain_text applied to the text it returned
SanitizeAgain ==
    /\ sanitizer.pc = "once"
    /\ sanitizer' = [sanitizer EXCEPT !.pc = "twice",
                                      !.twice = _to_plain_text(sanitizer.once)]
    /\ UNCHANGED AllButSanitizer

NextSanitizer ==
    \/ \E text \in SanitizerTexts : SanitizeText(text)
    \/ SanitizeAgain

SpecSanitizer == Init /\ [][NextSanitizer]_vars

(***************************************************************************)
(* Properties.                                                             *)
(***************************************************************************)
\* p is root or lies below it, component by component
EqualOrDescendant(p, root) == \E n \in 0..Len(p) : SubSeq(p, 1, n) = root

\* the canonical path of a requested directory: user expansion, resolution
\* against the root when relative, symlinks and ".." resolved
Canonical(raw, root) ==
    IF raw.t = "str" /\ Strip(raw.v) # <<>> /\ ExpandUser(PathOf(Strip(raw.v))).ok
    THEN LET e == ExpandUser(PathOf(Strip(raw.v)))
         IN  Resolve(IF e.abs THEN e.parts ELSE root \o e.parts)
    ELSE [ok |-> FALSE, path |-> <<>>]

OutsideRoot(raw, root) ==
    Canonical(raw, root).ok /\ ~EqualOrDescendant(Canonical(raw, root).path, root)

\* C1: a requested even-g2 working directory whose canonical path is neither
\* the approved root nor below it (component-wise) resolves to the approved
\* root, and the agent is called with the approved root.
C1_Containment ==
    (resolution.called /\ OutsideRoot(resolution.raw, default_working_directory))
    => /\ ~resolution.out.raised
       /\ resolution.out.dir = default_working_directory
       /\ Len(agentCalls) = 1
       /\ agentCalls[1].working_directory = default_working_directory

\* an existing sibling directory whose string starts with the root's string
\* was requested and the root was used
C1_Witness ==
    /\ resolution.called
    /\ OutsideRoot(resolution.raw, default_working_directory)
    /\ IsDir(Canonical(resolution.raw, default_working_directory).path)
    /\ StartsWith(PathStr(Canonical(resolution.raw, default_working_directory).path),
                  PathStr(default_working_directory))
    /\ pc = "await_agent"
    /\ agentCalls[1].working_directory = default_working_directory

FallbackCount(c) ==
    Cardinality({ i \in DOMAIN calls[c].sent : calls[c].sent[i].strategy = "fallback" })

PrimaryCount(c) ==
    Cardinality({ i \in DOMAIN calls[c].sent : calls[c].sent[i].strategy = "primary" })

PrimarySucceeded(c) ==
    calls[c].primary.kind = "response"
    => /\ calls[c].result = calls[c].primary
       /\ FallbackCount(c) = 0

PrimaryUnknownMessageType(c) ==
    (calls[c].primary.kind = "error"
       /\ Contains(calls[c].primary.error.msg, UnknownMessageType))
    => /\ FallbackCount(c) = 1
       /\ calls[c].pc = "done" => calls[c].result = calls[c].fallback

\* C2 as stated: an error with the substring goes to the fallback once and the
\* fallback's result is returned; an error with any other message never goes
\* to the fallback and propagates unchanged; a success is returned directly.
C2_AsStated ==
    \A c \in CallIds :
       /\ PrimaryUnknownMessageType(c)
       /\ (calls[c].primary.kind = "error"
             /\ ~Contains(calls[c].primary.error.msg, UnknownMessageType))
          => /\ FallbackCount(c) = 0
             /\ calls[c].result = calls[c].primary
       /\ PrimarySucceeded(c)

\* C2 amended: the errors that never go to the fallback are those whose
\* message lacks the substring and whose kind is not ClaudeParsingError.
C2_FallbackByMessage ==
    \A c \in CallIds :
       /\ PrimaryUnknownMessageType(c)
       /\ (calls[c].primary.kind = "error"
             /\ ~Contains(calls[c].primary.error.msg, UnknownMessageType)
             /\ calls[c].primary.error.kind # "ClaudeParsingError")
          => /\ FallbackCount(c) = 0
             /\ calls[c].result = calls[c].primary
       /\ PrimarySucceeded(c)

\* a ClaudeProcessError with the substring was answered by the fallback
C2_Witness ==
    \E c \in CallIds :
       /\ calls[c].pc = "done"
       /\ calls[c].primary.kind = "error"
       /\ calls[c].primary.error.kind = "ClaudeProcessError"
       /\ Contains(calls[c].primary.error.msg, UnknownMessageType)
       /\ calls[c].fallback.kind = "response"
       /\ calls[c].result = calls[c].fallback

\* C3: a ClaudeParsingError of the primary, whatever its message, sends the
\* same request to the fallback exactly once; the fallback's response or
\* error is the result, the primary is not tried again.
C3_FallbackByKind ==
    \A c \in CallIds :
       (calls[c].primary.kind = "error"
          /\ calls[c].primary.error.kind = "ClaudeParsingError")
       => /\ calls[c].sent = <<Invocation("primary", calls[c].request),
                               Invocation("fallback", calls[c].request)>>
          /\ calls[c].pc \in {"await_fallback", "done"}
          /\ calls[c].pc = "done"
             => (calls[c].fallback.kind # "none"
                   /\ calls[c].result = calls[c].fallback)

\* a ClaudeParsingError without the substring went to the fallback, which
\* raised, and the fallback's error is the result
C3_Witness ==
    \E c \in CallIds :
       /\ calls[c].pc = "done"
       /\ calls[c].primary.kind = "error"
       /\ calls[c].primary.error.kind = "ClaudeParsingError"
       /\ ~Contains(calls[c].primary.error.msg, UnknownMessageType)
       /\ calls[c].fallback.kind = "error"
       /\ calls[c].result = calls[c].fallback
       /\ FallbackCount(c) = 1
       /\ PrimaryCount(c) = 1

ScheduledSucceeded ==
    /\ entry = "handle_scheduled"
    /\ cur.type = "ScheduledEvent"
    /\ response.kind = "response"
    /\ response.content # <<>>

\* the i-th published event is the one for the i-th target
PublishedFor(i) ==
    /\ published[i].chat_id = cur.target_chat_ids[i]
    /\ published[i].text = response.content
    /\ published[i].originating_event_id = cur.id

OnePerTarget ==
    /\ Len(published) = Len(cur.target_chat_ids)
    /\ \A i \in DOMAIN published : PublishedFor(i)

OneBroadcast ==
    /\ Len(published) = 1
    /\ published[1].chat_id = 0
    /\ published[1].text = response.content
    /\ published[1].originating_event_id = cur.id

\* C4 as stated: one event per target, in order, and with targets no event
\* with chat id 0; without targets one event with chat id 0.
C4_AsStated ==
    (ScheduledSucceeded /\ pc = "done")
    => IF cur.target_chat_ids # <<>>
       THEN OnePerTarget /\ \A i \in DOMAIN published : published[i].chat_id # 0
       ELSE OneBroadcast

\* C4 amended: one event per target, in order, and no other event (an event
\* with chat id 0 only where the target itself is 0); without targets one
\* event with chat id 0. While the loop runs the events published so far are
\* those of the first targets.
C4_FanOut ==
    ScheduledSucceeded
    => /\ pc = "done"
          => IF cur.target_chat_ids # <<>> THEN OnePerTarget ELSE OneBroadcast
       /\ pc = "fanout"
          => /\ Len(published) = idx - 1
             /\ Len(published) <= Len(cur.target_chat_ids)
             /\ \A i \in DOMAIN published : PublishedFor(i)

\* two targets were served, in order
C4_Witness ==
    /\ ScheduledSucceeded
    /\ pc = "done"
    /\ cur.target_chat_ids = <<22, 11>>
    /\ Len(published) = 2
    /\ published[1].chat_id = 22
    /\ published[2].chat_id = 11

\* the payload's text is absent, empty or made of whitespace
BlankText(x) ==
    \/ x.t = "missing"
    \/ x.t = "str" /\ \A i \in DOMAIN x.v : IsSpace(x.v[i])

\* C5: an even-g2 webhook whose text is missing, empty or whitespace-only
\* causes no agent call and no published event, and handle_webhook returns.
C5_SilentDrop ==
    (/\ entry = "handle_webhook"
     /\ cur.type = "WebhookEvent"
     /\ cur.provider = "even-g2"
     /\ BlankText(cur.payload.text))
    => /\ pc = "done"
       /\ ~escaped
       /\ agentCalls = <<>>
       /\ published = <<>>
       /\ posts = <<>>

\* a whitespace-only text was dropped, though the payload names a session and
\* a directory
C5_Witness ==
    /\ entry = "handle_webhook"
    /\ cur.type = "WebhookEvent"
    /\ cur.provider = "even-g2"
    /\ cur.payload.text = S(<<" ", "\n">>)
    /\ cur.payload.session_id = S(<<"s", "1">>)
    /\ cur.payload.working_directory = S(<<"s">>)
    /\ pc = "done"
    /\ agentCalls = <<>>

\* C6 as stated: no exception ever leaves handle_webhook, handle_scheduled or
\* handle_response.
C6_NoEscape == ~escaped

\* C7: when the agent call raises, the handler publishes nothing and returns.
C7_AgentFaultDropped ==
    response.kind = "error"
    => /\ pc = "done"
       /\ ~escaped
       /\ published = <<>>
       /\ posts = <<>>
       /\ Len(agentCalls) = 1

\* the agent call of a scheduled event with two targets raised
C7_Witness ==
    /\ response.kind = "error"
    /\ cur.type = "ScheduledEvent"
    /\ Len(cur.target_chat_ids) = 2
    /\ pc = "done"
    /\ published = <<>>

\* the event handle_response was called with last: the one handed to it from
\* outside, or the one AgentHandler published last
Delivered ==
    IF entry = "handle_response" THEN cur
    ELSE IF published # <<>> THEN Last(published)
    ELSE NoEvent

Deliverable(event) ==
    /\ event.type = "AgentResponseEvent"
    /\ event.provider = "even-g2"
    /\ event.session_id.t = "str"
    /\ event.session_id.v # <<>>
    /\ _to_plain_text(event.text) # <<>>

ExpectedPost(event) ==
    [url |-> <<"http://localhost:5173", "/__g2_receive">>,
     authorization |-> <<"Bearer ", "bridge-secret">>,
     sessionId |-> event.session_id.v,
     text |-> _to_plain_text(event.text),
     source_event |-> event.originating_event_id]

\* C8: an event that passes the filters gets exactly one POST to
\* <base>/__g2_receive with the bearer secret and {sessionId, text}; there
\* is no second POST after a rejected or failed one, and a failed POST does
\* not leave the handler.
C8_AtMostOnce ==
    /\ Len(posts) <= 1
    /\ Deliverable(Delivered) => posts = <<ExpectedPost(Delivered)>>
    /\ reply.kind # "none"
       => /\ posts = <<ExpectedPost(Delivered)>>
          /\ pc = "done"
          /\ ~escaped

\* a POST failed at transport level, once, and the handler returned
C8_Witness ==
    /\ reply.kind = "fault"
    /\ entry = "handle_response"
    /\ Len(posts) = 1
    /\ pc = "done"
    /\ ~escaped

RejectedLog(event) ==
    LogEntry("warning", "Even-g2 bridge rejected callback", event.session_id,
             event.originating_event_id, reply.status_code,
             Truncate(Strip(NewlinesToSpaces(reply.body)), 300))

WarningsOfBridge ==
    { i \in DOMAIN logs : logs[i].msg = "Even-g2 bridge rejected callback" }

\* C9 as stated: every response whose status is not 2xx is logged by exactly
\* one warning with the status code, the session id, the originating event
\* id and the body snippet of at most 300 characters.
C9_Non2xxLogged ==
    (reply.kind = "response" /\ ~(reply.status_code \in 200..299))
    => /\ Cardinality(WarningsOfBridge) = 1
       /\ \A i \in WarningsOfBridge :
             /\ logs[i] = RejectedLog(Delivered)
             /\ Len(logs[i].body_snippet) <= 300
       /\ ~escaped

\* C10: handle_response makes no HTTP call for an event that is not an
\* AgentResponseEvent, whose provider is not even-g2, whose session id is
\* absent or empty, or whose sanitized text is empty.
C10_Filter ==
    (Delivered # NoEvent /\ ~Deliverable(Delivered))
    => /\ posts = <<>>
       /\ pc # "await_http"
       /\ reply.kind = "none"

\* an even-g2 event with a session id whose text is only tags was dropped
C10_Witness ==
    /\ entry = "handle_response"
    /\ cur.type = "AgentResponseEvent"
    /\ cur.provider = "even-g2"
    /\ cur.session_id = S(<<"s", "1">>)
    /\ cur.text = <<"<", "b", ">", "<", "/", "b", ">">>
    /\ pc = "done"
    /\ posts = <<>>

\* the session id handle_webhook takes from the payload: the stripped string of
\* the session_id field of an even-g2 payload, absent when that is empty and
\* for every other provider
ExtractedSessionId(event) ==
    IF event.provider = "even-g2"
    THEN LET sid == Strip(PyStr(event.payload.session_id))
         IN  IF sid = <<>> THEN Null ELSE S(sid)
    ELSE Null

WebhookSucceeded ==
    /\ entry = "handle_webhook"
    /\ cur.type = "WebhookEvent"
    /\ response.kind = "response"
    /\ response.content # <<>>

\* C11: when the agent call for a WebhookEvent succeeds with non-empty
\* content, handle_webhook publishes exactly one AgentResponseEvent: chat id
\* 0, the agent's content as text, the webhook's provider, the session id
\* extracted from the payload (absent for another provider than even-g2) and
\* the webhook event's id as originating event id.
C11_WebhookPublication ==
    WebhookSucceeded
    => published = <<AgentResponseEvent(0, response.content, cur.provider,
                                        ExtractedSessionId(cur), cur.id)>>

\* an even-g2 webhook with a padded session id was answered and published
\* with the stripped session id
C11_Witness ==
    /\ WebhookSucceeded
    /\ cur.provider = "even-g2"
    /\ cur.payload.session_id = S(<<"s", "1">>)
    /\ cur.id = 2
    /\ Len(published) = 1
    /\ published[1].session_id = S(<<"s", "1">>)
    /\ published[1].provider = "even-g2"
    /\ published[1].originating_event_id = 2
    /\ published[1].chat_id = 0

\* C12: every AgentResponseEvent AgentHandler published carries a non-empty
\* text, and when the agent returns empty content neither handle_webhook nor
\* handle_scheduled publishes any event.
C12_NonEmptyText ==
    entry \in {"handle_webhook", "handle_scheduled"}
    => /\ \A i \in DOMAIN published : published[i].text # <<>>
       /\ (response.kind = "response" /\ response.content = <<>>)
          => (published = <<>> /\ posts = <<>> /\ pc = "done")

\* the agent answered a scheduled event with two targets by empty content
C12_Witness ==
    /\ entry = "handle_scheduled"
    /\ cur.type = "ScheduledEvent"
    /\ Len(cur.target_chat_ids) = 2
    /\ response.kind = "response"
    /\ response.content = <<>>
    /\ pc = "done"
    /\ published = <<>>

\* the handler returned at one of its input checks: the event is not of the
\* handler's type, or it is an even-g2 webhook whose stripped text is empty
DroppedByValidation ==
    \/ entry = "handle_webhook"
          /\ (cur.type # "WebhookEvent"
                \/ (cur.provider = "even-g2"
                      /\ Strip(PyStr(cur.payload.text)) = <<>>))
    \/ entry = "handle_scheduled" /\ cur.type # "ScheduledEvent"

\* C13 as stated: an event handled by AgentHandler causes at most one
\* run_command call, and exactly one when the event is not dropped by input
\* validation, whatever the targets and whether or not the agent call faults.
C13_OneInvocation ==
    entry \in {"handle_webhook", "handle_scheduled"}
    => /\ Len(agentCalls) <= 1
       /\ ~DroppedByValidation => Len(agentCalls) = 1

\* C14: the tags are turned into newlines or removed before the entities are
\* decoded, so an entity-encoded angle bracket comes out as the literal
\* character and is never removed as a tag: the two texts of the tests give
\* the tests' results, and "&lt;" name "&gt;" of an allow-listed tag name,
\* opening or closing, gives "<" name ">".
C14_EntityFidelity ==
    sanitizer.pc # "idle"
    => /\ sanitizer.text = LiteralBrackets
          => sanitizer.once = LiteralBracketsPlain
       /\ sanitizer.text = CodeParagraph
          => sanitizer.once = CodeParagraphPlain
       /\ \A n \in FormatTags :
             /\ sanitizer.text = EncodedTag(n)
                => sanitizer.once = <<"<">> \o n \o <<">">>
             /\ sanitizer.text = EncodedTag(<<"/">> \o n)
                => sanitizer.once = <<"<", "/">> \o n \o <<">">>

\* "&lt;b&gt;" was sanitized to "<b>"
C14_Witness ==
    /\ sanitizer.pc = "once"
    /\ sanitizer.text = <<"&", "l", "t", ";", "b", "&", "g", "t", ";">>
    /\ sanitizer.once = <<"<", "b", ">">>

\* t holds no "<" and no "&": neither a tag nor an entity
PlainText(t) == \A i \in DOMAIN t : t[i] \notin {"<", "&"}

NotSpace(c) == ~IsSpace(c)

\* C15 as stated: for every text t,
\* _to_plain_text(_to_plain_text(t)) = _to_plain_text(t).
C15_AsStated ==
    sanitizer.pc = "twice" => sanitizer.twice = sanitizer.once

\* C15 amended: a text without "<" and "&" is returned unchanged up to the
\* whitespace removed (no character other than whitespace is added, dropped
\* or moved; the result has no whitespace at its ends and no three newlines
\* in a row), and whenever the sanitized text holds no "<" and no "&",
\* sanitizing it again returns it unchanged.
C15_IdempotentOnPlain ==
    /\ (sanitizer.pc # "idle" /\ PlainText(sanitizer.text))
       => /\ SelectSeq(sanitizer.once, NotSpace)
               = SelectSeq(sanitizer.text, NotSpace)
          /\ Len(sanitizer.once) <= Len(sanitizer.text)
          /\ sanitizer.once = Strip(sanitizer.once)
          /\ \A i \in 1..(Len(sanitizer.once) - 2) :
                SubSeq(sanitizer.once, i, i + 2) # <<"\n", "\n", "\n">>
    /\ (sanitizer.pc = "twice" /\ PlainText(sanitizer.once))
       => sanitizer.twice = sanitizer.once

\* a text with five newlines in a row was sanitized twice, the second time
\* without change
C15_Witness ==
    /\ sanitizer.pc = "twice"
    /\ sanitizer.text = FiveNewlines
    /\ sanitizer.once = <<"x", "\n", "\n", "y">>
    /\ sanitizer.twice = sanitizer.once

\* the calls whose request went to the fallback strategy
FellBack == { c \in CallIds : FallbackCount(c) >= 1 }

\* C16: the counter is one more for each call that fell back and is left
\* alone by every other call: whatever the interleaving of the calls at their
\* suspension points, it equals the number of calls that fell back, at every
\* moment and so when all have ended.
C16_FailureCounter ==
    /\ sdk_failed_count = Cardinality(FellBack)
    /\ \A c \in CallIds :
          /\ FallbackCount(c) <= 1
          /\ (calls[c].pc = "done" /\ calls[c].result = calls[c].primary)
             => c \notin FellBack

\* two calls are both suspended in their fallback strategy and the counter
\* is two
C16_Witness ==
    /\ calls[1].pc = "await_fallback"
    /\ calls[2].pc = "await_fallback"
    /\ sdk_failed_count = 2

ExpansionOrCanonicalizationFails(raw, root) ==
    /\ raw.t = "str"
    /\ Strip(raw.v) # <<>>
    /\ LET e == ExpandUser(PathOf(Strip(raw.v)))
       IN  \/ ~e.ok
           \/ ~Resolve(IF e.abs THEN e.parts ELSE root \o e.parts).ok

\* C18 as stated: when user expansion or canonicalization of the requested
\* directory fails, the resolver returns the default directory instead of
\* raising, and handle_webhook calls the agent with that directory.
C18_ResolutionNeverFails ==
    (/\ resolution.called
     /\ ExpansionOrCanonicalizationFails(resolution.raw,
                                         default_working_directory))
    => /\ ~resolution.out.raised
       /\ resolution.out.dir = default_working_directory
       /\ ~escaped
       /\ Len(agentCalls) = 1
       /\ agentCalls[1].working_directory = default_working_directory

InsideRoot(raw, root) ==
    Canonical(raw, root).ok /\ EqualOrDescendant(Canonical(raw, root).path, root)

\* the request is not a string, or is an empty or whitespace-only string
NoRequest(raw) ==
    raw.t # "str" \/ \A i \in DOMAIN raw.v : IsSpace(raw.v[i])

\* C19: a request whose canonical path is the approved root or inside it
\* resolves to that canonical path when it is an existing directory (a
\* relative request taken against the approved root) and to the approved
\* root when it does not exist or is not a directory; a request that is not
\* a string, is empty or is whitespace-only resolves to the approved root.
C19_Acceptance ==
    resolution.called
    => LET raw == resolution.raw
           root == default_working_directory
           canonical == Canonical(raw, root).path
       IN  /\ InsideRoot(raw, root)
              => /\ ~resolution.out.raised
                 /\ resolution.out.dir =
                       IF Exists(canonical) /\ IsDir(canonical)
                       THEN canonical ELSE root
           /\ NoRequest(raw)
              => /\ ~resolution.out.raised
                 /\ resolution.out.dir = root
           /\ raw \in { S(<<"s">>), S(<<" ", "s", "/", " ">>), S(<<"i">>),
                         S(<<"~", "u">>), S(<<"x", "/", ".", ".", "/", "s">>),
                         S(<<"/", "w", "/", "d", "/", "s">>) }
              => resolution.out.dir = <<nW, nR, nS>>
           /\ raw \in { S(<<"f">>), S(<<"x">>), S(<<".">>), Num7, Null,
                         S(<<" ">>) }
              => resolution.out.dir = root

\* the relative request "s" was resolved to the directory s of the root and
\* the agent is called with it
C19_Witness ==
    /\ resolution.called
    /\ resolution.raw = S(<<"s">>)
    /\ resolution.out.dir = <<nW, nR, nS>>
    /\ pc = "await_agent"
    /\ agentCalls[1].working_directory = <<nW, nR, nS>>

\* C20: handle_scheduled passes the event's working directory to the agent
\* as it is given whenever the event sets one, also outside the approved
\* root and when it does not exist, and the approved root only when the
\* event sets none; every agent call of handle_webhook gets the approved
\* root or a directory inside it.
C20_ScheduledBypass ==
    /\ (entry = "handle_scheduled" /\ cur.type = "ScheduledEvent")
       => /\ Len(agentCalls) = 1
          /\ cur.working_directory.t = "path"
             => agentCalls[1].working_directory = cur.working_directory.v
          /\ cur.working_directory.t = "null"
             => agentCalls[1].working_directory = default_working_directory
    /\ entry = "handle_webhook"
       => \A i \in DOMAIN agentCalls :
             EqualOrDescendant(agentCalls[i].working_directory,
                               default_working_directory)

\* a scheduled event's agent call runs in a sibling directory of the root
C20_Witness ==
    /\ entry = "handle_scheduled"
    /\ cur.type = "ScheduledEvent"
    /\ cur.working_directory = P(<<nW, nRE>>)
    /\ pc = "await_agent"
    /\ agentCalls[1].working_directory = <<nW, nRE>>
    /\ ~EqualOrDescendant(<<nW, nRE>>, default_working_directory)

\* the payload carries a session id: a string that is not empty once stripped
CarriesSessionId(event) ==
    /\ event.payload.session_id.t = "str"
    /\ Strip(event.payload.session_id.v) # <<>>

\* the POSTs are caused by an even-g2 webhook that carries a session id and
\* whose agent response is not empty, and they name that session id
GatedPosts ==
    posts # <<>>
    => /\ cur.type = "WebhookEvent"
       /\ cur.provider = "even-g2"
       /\ CarriesSessionId(cur)
       /\ response.kind = "response"
       /\ response.content # <<>>
       /\ \A i \in DOMAIN posts :
             posts[i].sessionId = Strip(cur.payload.session_id.v)

\* C21 as stated: with both services registered, a POST to /__g2_receive
\* occurs only for an even-g2 WebhookEvent whose payload carries a non-empty
\* session_id and whose agent response is non-empty, with the payload's
\* session id as sessionId; no ScheduledEvent and no webhook of another
\* provider causes a POST; an even-g2 webhook without a session id causes an
\* agent invocation and no POST.
C21_DeliveryGate ==
    entry \in {"handle_webhook", "handle_scheduled"}
    => /\ GatedPosts
       /\ (/\ cur.type = "WebhookEvent"
           /\ cur.provider = "even-g2"
           /\ ~CarriesSessionId(cur)
           /\ ~DroppedByValidation)
          => (Len(agentCalls) = 1 /\ posts = <<>>)

\* the agent call of a scheduled event succeeded and a publish raised
PublishFaulted ==
    /\ entry = "handle_scheduled"
    /\ cur.type = "ScheduledEvent"
    /\ response.kind = "response"
    /\ \E i \in DOMAIN logs : logs[i].level = "exception"

\* C22: when a publish raises during the fan-out of handle_scheduled, the
\* handler logs the fault and returns; the events published for the earlier
\* targets stay published, in order, no event is published for a later
\* target, and the agent is not called again.
C22_PartialFanout ==
    PublishFaulted
    => /\ pc = "done"
       /\ ~escaped
       /\ Len(agentCalls) = 1
       /\ Len(published) \in {idx - 1, idx}
       /\ posts = <<>>
       /\ IF cur.target_chat_ids # <<>>
          THEN /\ idx <= Len(cur.target_chat_ids)
               /\ \A i \in DOMAIN published : PublishedFor(i)
          ELSE \A i \in DOMAIN published :
                  /\ published[i].chat_id = 0
                  /\ published[i].text = response.content

\* the publish for the second of the targets [22, 11] raised before the bus
\* delivered the event: the event for 22 stays, none exists for 11
C22_Witness ==
    /\ PublishFaulted
    /\ cur.target_chat_ids = <<22, 11>>
    /\ idx = 2
    /\ pc = "done"
    /\ Len(published) = 1
    /\ published[1].chat_id = 22
    /\ Len(agentCalls) = 1

====
